---- MODULE Spec2Model ----
(***************************************************************************)
(* Model of the rag-search request pipeline:                               *)
(*   src/handlers/rag_search.py  rag_search, search, reranking,            *)
(*                               fetch_details, filter_content             *)
(*   src/services/web.py         fetch_url, html_to_markdown,              *)
(*                               fetch_markdown, batch_fetch_urls          *)
(* Python dicts are functions whose DOMAIN is the set of keys present, so  *)
(* a missing "score" or "content" key is a key outside DOMAIN.  Texts are  *)
(* sequences of one-character strings.  Results are mutated in place by    *)
(* the stages, so a stage that raises leaves behind whatever it wrote      *)
(* before raising.                                                         *)
(***************************************************************************)
EXTENDS Integers, Sequences, FiniteSets, TLC

VARIABLES authApiKey, authorization, req, env, pc, search_results, response,
          calls, stage1, entered, outcome, matches, tasks, details

vars == <<authApiKey, authorization, req, env, pc, search_results, response,
          calls, stage1, entered, outcome, matches, tasks, details>>

(***************************************************************************)
(* Bounds of the model.                                                    *)
(***************************************************************************)
\* results per provider answer in the unit specifications
MaxResults == 2
\* entries of the semantic index's ranked answer
MaxMatches == 2

(***************************************************************************)
(* Dicts and texts.                                                        *)
(***************************************************************************)
Has(d, k) == k \in DOMAIN d

Put(d, k, v) == [x \in (DOMAIN d) \cup {k} |-> IF x = k THEN v ELSE d[x]]

NL == "\n"

Range(s) == {s[i] : i \in 1..Len(s)}

Take(s, n) == SubSeq(s, 1, IF n < Len(s) THEN n ELSE Len(s))

\* the header value None / an unset environment variable
None == <<"None">>

(***************************************************************************)
(* The collaborators that are not part of the handler: the search provider *)
(* and the semantic index.  Their answers are fixed by env, the script of  *)
(* the environment for one request.                                        *)
(***************************************************************************)
\* get_search_results(params): the provider's answer, or an opaque error
GetSearchResults(provider) ==
    [raised |-> provider.raises, results |-> provider.results]

\* store_results(results): the index handle is the sequence of documents,
\* keyed by identifier; the indexed text is the content when there is one
\* and the snippet otherwise
StoreResults(results) ==
    [i \in 1..Len(results) |->
        [uuid |-> results[i].uuid,
         text |-> IF Has(results[i], "content") THEN results[i].content
                  ELSE results[i].snippet]]

DocText(index, u) ==
    LET i == CHOOSE j \in 1..Len(index) : index[j].uuid = u IN index[i].text

\* query_results(index, query, threshold, max): the ranked answer of the
\* index restricted to the stored documents and the score floor, cut at max
QueryResults(index, ranked, threshold, max) ==
    LET stored == {index[i].uuid : i \in 1..Len(index)}
        ok(m) == m.uuid \in stored /\ m.score >= threshold
        hits == Take(SelectSeq(ranked, ok), max)
    IN [i \in 1..Len(hits) |->
          IF hits[i].bare
          THEN [uuid |-> hits[i].uuid, score |-> hits[i].score]
          ELSE [uuid |-> hits[i].uuid, score |-> hits[i].score,
                content |-> DocText(index, hits[i].uuid)]]

Uuids(results) == [i \in 1..Len(results) |-> results[i].uuid]

Call(op, arg) == [op |-> op, arg |-> arg]

(***************************************************************************)
(* src/handlers/rag_search.py                                              *)
(***************************************************************************)
\* apiKey = authorization.replace("Bearer ", "") when the header is truthy
ApiKey(auth) ==
    IF auth = None \/ auth = <<>> THEN <<>>
    ELSE SelectSeq(auth, LAMBDA t : t # "Bearer ")

\* search that logs the provider's error and answers no results
search_swallowing(query, num, provider) ==
    LET r == GetSearchResults(provider)
    IN [raised |-> FALSE,
        ret    |-> IF r.raised THEN <<>> ELSE r.results,
        calls  |-> <<Call("search", <<num>>)>>]

\* search(query, num, locale)
search(query, num, provider) ==
    LET r == GetSearchResults(provider)
    IN [raised |-> r.raised,
        ret    |-> IF r.raised THEN <<>> ELSE r.results,
        calls  |-> <<Call("search", <<num>>)>>]

\* a score map that keeps the first match of an identifier
ScoreMapsFirstWins(match_results) ==
    [u \in {match_results[i].uuid : i \in 1..Len(match_results)} |->
        LET first == CHOOSE i \in 1..Len(match_results) :
                       /\ match_results[i].uuid = u
                       /\ \A j \in 1..(i - 1) : match_results[j].uuid # u
        IN match_results[first].score]

\* score_maps[result["uuid"]] = result["score"]: the last match of an
\* identifier wins
ScoreMaps(match_results) ==
    [u \in {match_results[i].uuid : i \in 1..Len(match_results)} |->
        LET last == CHOOSE i \in 1..Len(match_results) :
                      /\ match_results[i].uuid = u
                      /\ \A j \in (i+1)..Len(match_results) :
                            match_results[j].uuid # u
        IN match_results[last].score]

\* a merge that builds the list from the matches and so loses the unmatched
MergeScoresMatchedOnly(results, score_maps) ==
    LET hit == SelectSeq(results, LAMBDA r : r.uuid \in DOMAIN score_maps)
    IN [i \in 1..Len(hit) |-> Put(hit[i], "score", score_maps[hit[i].uuid])]

MergeScores(results, score_maps) ==
    [i \in 1..Len(results) |->
        IF results[i].uuid \in DOMAIN score_maps
        THEN Put(results[i], "score", score_maps[results[i].uuid])
        ELSE results[i]]

\* a sort through a table keyed by score, which keeps one result per score
InsertDescByScore(t, x) ==
    LET k == Cardinality({i \in 1..Len(t) : t[i].score >= x.score})
    IN IF \E i \in 1..Len(t) : t[i].score = x.score THEN t
       ELSE SubSeq(t, 1, k) \o <<x>> \o SubSeq(t, k + 1, Len(t))

\* a descending sort that is not stable: an element goes in front of the
\* elements whose score equals its own
InsertDescUnstable(t, x) ==
    LET k == Cardinality({i \in 1..Len(t) : t[i].score > x.score})
    IN SubSeq(t, 1, k) \o <<x>> \o SubSeq(t, k + 1, Len(t))

\* sorted(..., key=lambda x: x['score'], reverse=True): stable, an element
\* goes behind every element whose score is at least its own
InsertDesc(t, x) ==
    LET k == Cardinality({i \in 1..Len(t) : t[i].score >= x.score})
    IN SubSeq(t, 1, k) \o <<x>> \o SubSeq(t, k + 1, Len(t))

RECURSIVE SortedDesc(_)
SortedDesc(s) ==
    IF s = <<>> THEN <<>>
    ELSE InsertDesc(SortedDesc(SubSeq(s, 1, Len(s) - 1)), s[Len(s)])

\* reranking(search_results, query).  results is the caller's list after the
\* call (its dicts are written in place), ret the list returned.
reranking(results, ix) ==
    LET index   == StoreResults(results)
        found   == QueryResults(index, ix.ranked, 0, Len(results))
        merged  == MergeScores(results, ScoreMaps(found))
        nokey   == \E i \in 1..Len(merged) : ~Has(merged[i], "score")
        cStore  == <<Call("store", Uuids(results))>>
        cQuery  == cStore \o <<Call("query", <<0, Len(results)>>)>>
    IN  IF ix.fail = "store"
        THEN [raised |-> "store", results |-> results, ret |-> <<>>,
              calls |-> cStore, matches |-> <<>>]
        ELSE IF ix.fail = "query"
        THEN [raised |-> "query", results |-> results, ret |-> <<>>,
              calls |-> cQuery, matches |-> <<>>]
        ELSE IF nokey
        THEN [raised |-> "sort", results |-> merged, ret |-> <<>>,
              calls |-> cQuery, matches |-> found]
        ELSE [raised |-> "", results |-> merged, ret |-> SortedDesc(merged),
              calls |-> cQuery, matches |-> found]

\* a selection that stops as soon as it holds top_k links
RECURSIVE SelectUrlsAtMostTopK(_, _, _, _, _)
SelectUrlsAtMostTopK(results, min_score, top_k, i, urls) ==
    IF i > Len(results) \/ Len(urls) >= top_k
    THEN [raised |-> FALSE, urls |-> urls]
    ELSE IF ~Has(results[i], "score")
    THEN [raised |-> TRUE, urls |-> urls]
    ELSE IF results[i].score >= min_score
    THEN SelectUrlsAtMostTopK(results, min_score, top_k, i + 1,
                              Append(urls, results[i].link))
    ELSE SelectUrlsAtMostTopK(results, min_score, top_k, i + 1, urls)

\* fetch_details, lines 137-142: the links handed to the batch fetch
RECURSIVE SelectUrls(_, _, _, _, _)
SelectUrls(results, min_score, top_k, i, urls) ==
    IF i > Len(results) \/ Len(urls) > top_k
    THEN [raised |-> FALSE, urls |-> urls]
    ELSE IF ~Has(results[i], "score")
    THEN [raised |-> TRUE, urls |-> urls]
    ELSE IF results[i].score >= min_score
    THEN SelectUrls(results, min_score, top_k, i + 1,
                    Append(urls, results[i].link))
    ELSE SelectUrls(results, min_score, top_k, i + 1, urls)

\* fetch_details, lines 150-152: the last outcome of a url wins
ContentMaps(pairs) ==
    [u \in {pairs[i][1] : i \in 1..Len(pairs)} |->
        LET last == CHOOSE i \in 1..Len(pairs) :
                      /\ pairs[i][1] = u
                      /\ \A j \in (i+1)..Len(pairs) : pairs[j][1] # u
        IN pairs[last][2]]

\* a join that walks the content map first and so moves the results that got
\* content to the front
AttachContentFetchedFirst(results, content_maps) ==
    LET got == SelectSeq(results, LAMBDA r : r.link \in DOMAIN content_maps)
        not == SelectSeq(results, LAMBDA r : r.link \notin DOMAIN content_maps)
    IN [i \in 1..Len(got) |->
            Put(got[i], "content", content_maps[got[i].link])] \o not

\* fetch_details, lines 154-156
AttachContent(results, content_maps) ==
    [i \in 1..Len(results) |->
        IF results[i].link \in DOMAIN content_maps
        THEN Put(results[i], "content", content_maps[results[i].link])
        ELSE results[i]]

\* the test of line 166 taking a content as long as the snippet too
EligibleAtLeast(results) ==
    SelectSeq(results,
              LAMBDA r : Has(r, "content") /\ Len(r.content) >= Len(r.snippet))

\* filter_content, lines 164-167
Eligible(results) ==
    SelectSeq(results,
              LAMBDA r : Has(r, "content") /\ Len(r.content) > Len(r.snippet))

\* filter_content, lines 176-181: the first match of an identifier sets the
\* empty string, every later one appends its content
RECURSIVE Accumulate(_, _, _)
Accumulate(match_results, i, content_maps) ==
    IF i > Len(match_results)
    THEN [raised |-> FALSE, content_maps |-> content_maps]
    ELSE LET m == match_results[i] IN
         IF m.uuid \notin DOMAIN content_maps
         THEN Accumulate(match_results, i + 1, Put(content_maps, m.uuid, <<>>))
         ELSE IF ~Has(m, "content")
         THEN [raised |-> TRUE, content_maps |-> content_maps]
         ELSE Accumulate(match_results, i + 1,
                         Put(content_maps, m.uuid,
                             content_maps[m.uuid] \o m.content))

EmptyMap == [u \in {} |-> <<>>]

\* an overwrite that puts the matched results in front of the others
OverwriteContentMatchedFirst(results, content_maps) ==
    LET hit  == SelectSeq(results, LAMBDA r : r.uuid \in DOMAIN content_maps)
        rest == SelectSeq(results, LAMBDA r : r.uuid \notin DOMAIN content_maps)
    IN [i \in 1..Len(hit) |->
            Put(hit[i], "content", content_maps[hit[i].uuid])] \o rest

\* a filter that keeps only the results the index matched
OverwriteContentMatchedOnly(results, content_maps) ==
    LET hit == SelectSeq(results, LAMBDA r : r.uuid \in DOMAIN content_maps)
    IN [i \in 1..Len(hit) |->
            Put(hit[i], "content", content_maps[hit[i].uuid])]

OverwriteContent(results, content_maps) ==
    [i \in 1..Len(results) |->
        IF results[i].uuid \in DOMAIN content_maps
        THEN Put(results[i], "content", content_maps[results[i].uuid])
        ELSE results[i]]

\* filter_content that writes each content as it accumulates it, so that a
\* failing merge leaves the contents written so far
filter_content_writing_through(results, filter_min_score, filter_top_k, ix) ==
    LET with    == Eligible(results)
        index   == StoreResults(with)
        found   == QueryResults(index, ix.ranked, filter_min_score, filter_top_k)
        acc     == Accumulate(found, 1, EmptyMap)
        cStore  == <<Call("store", Uuids(with))>>
        cQuery  == cStore \o <<Call("query", <<filter_min_score, filter_top_k>>)>>
    IN  IF ix.fail = "store"
        THEN [raised |-> "store", results |-> results, ret |-> <<>>,
              calls |-> cStore, matches |-> <<>>]
        ELSE IF ix.fail = "query"
        THEN [raised |-> "query", results |-> results, ret |-> <<>>,
              calls |-> cQuery, matches |-> <<>>]
        ELSE IF acc.raised
        THEN [raised |-> "merge",
              results |-> OverwriteContent(results, acc.content_maps),
              ret |-> <<>>, calls |-> cQuery, matches |-> found]
        ELSE [raised |-> "",
              results |-> OverwriteContent(results, acc.content_maps),
              ret |-> OverwriteContent(results, acc.content_maps),
              calls |-> cQuery, matches |-> found]

\* filter_content(search_results, query, filter_min_score, filter_top_k)
filter_content(results, filter_min_score, filter_top_k, ix) ==
    LET with    == Eligible(results)
        index   == StoreResults(with)
        found   == QueryResults(index, ix.ranked, filter_min_score, filter_top_k)
        acc     == Accumulate(found, 1, EmptyMap)
        cStore  == <<Call("store", Uuids(with))>>
        cQuery  == cStore \o <<Call("query", <<filter_min_score, filter_top_k>>)>>
    IN  IF ix.fail = "store"
        THEN [raised |-> "store", results |-> results, ret |-> <<>>,
              calls |-> cStore, matches |-> <<>>]
        ELSE IF ix.fail = "query"
        THEN [raised |-> "query", results |-> results, ret |-> <<>>,
              calls |-> cQuery, matches |-> <<>>]
        ELSE IF acc.raised
        THEN [raised |-> "merge", results |-> results, ret |-> <<>>,
              calls |-> cQuery, matches |-> found]
        ELSE [raised |-> "",
              results |-> OverwriteContent(results, acc.content_maps),
              ret |-> OverwriteContent(results, acc.content_maps),
              calls |-> cQuery, matches |-> found]

(***************************************************************************)
(* src/services/web.py                                                     *)
(***************************************************************************)
\* fetch_url(session, url) under the fetch outcome o of the environment.
\* A transport error is raised by session.get, outside the try; an HTTP
\* error status and a decode error are raised inside it and give "".
fetch_url(o) ==
    IF o.kind = "transport" THEN [raised |-> TRUE, html |-> <<>>]
    ELSE IF o.kind \in {"http", "decode"} THEN [raised |-> FALSE, html |-> <<>>]
    ELSE [raised |-> FALSE, html |-> o.html]

EndsBlank(t) == Len(t) >= 2 /\ t[Len(t)] = NL /\ t[Len(t) - 1] = NL

\* HTML2Text.handle with ignore_links and ignore_images.  Markup tokens:
\* "a" a hyperlink target, "i" an image, "p" a paragraph break, "!" markup
\* the converter raises on; every other token is a character of text.  The
\* converter ends its output with a blank line, also for the empty document.
RECURSIVE HandleBody(_, _, _)
HandleBody(html, i, out) ==
    IF i > Len(html) THEN out
    ELSE IF html[i] \in {"a", "i"} THEN HandleBody(html, i + 1, out)
    ELSE IF html[i] = "p"
    THEN HandleBody(html, i + 1,
                    IF out = <<>> \/ EndsBlank(out) THEN out
                    ELSE out \o <<NL, NL>>)
    ELSE HandleBody(html, i + 1, Append(out, html[i]))

Handle(html) ==
    LET b == HandleBody(html, 1, <<>>)
    IN IF EndsBlank(b) THEN b ELSE b \o <<NL, NL>>

HandleRaises(html) == \E i \in 1..Len(html) : html[i] = "!"

\* html_to_markdown(html)
html_to_markdown(html) ==
    IF HandleRaises(html) THEN <<>> ELSE Handle(html)

\* the pattern of re.sub(r'\n{2,n}', '\n', markdown): "{2,n}" is no
\* quantifier, so the pattern is a newline followed by the five characters
BlankPattern == <<NL, "{", "2", ",", "n", "}">>

MatchesAt(pat, t, i) ==
    /\ i + Len(pat) - 1 <= Len(t)
    /\ \A k \in 1..Len(pat) : t[i + k - 1] = pat[k]

\* re.sub(pat, repl, t): leftmost matches, not overlapping
RECURSIVE ReSub(_, _, _, _)
ReSub(pat, repl, t, i) ==
    IF i > Len(t) THEN <<>>
    ELSE IF MatchesAt(pat, t, i)
    THEN repl \o ReSub(pat, repl, t, i + Len(pat))
    ELSE <<t[i]>> \o ReSub(pat, repl, t, i + 1)

\* fetch_markdown(session, url)
fetch_markdown(url, o) ==
    LET f == fetch_url(o)
    IN IF f.raised THEN <<url, <<>> >>
       ELSE <<url, ReSub(BlankPattern, <<NL>>, html_to_markdown(f.html), 1)>>

\* the tasks batch_fetch_urls creates, one per entry of urls
NewTasks(urls) ==
    [i \in 1..Len(urls) |->
        [url |-> urls[i], done |-> FALSE, nth |-> 0, result |-> <<>>]]

\* a gather that hands the outcomes over in the order the fetches completed
GatheredAsCompleted(ts) ==
    [k \in 1..Len(ts) |->
        ts[CHOOSE i \in 1..Len(ts) : ts[i].nth = k].result]

\* a gather that keeps only the fetches that brought text
GatheredNonEmpty(ts) ==
    SelectSeq([i \in 1..Len(ts) |-> ts[i].result], LAMBDA r : r[2] # <<>>)

\* asyncio.gather: the outcomes in the order of the tasks
Gathered(ts) == [i \in 1..Len(ts) |-> ts[i].result]

AllSettled(ts) == \A i \in 1..Len(ts) : ts[i].done

(***************************************************************************)
(* The request: rag_search, one action per stage.  Only the batch fetch    *)
(* is awaited, so only there do steps of the tasks come in between.        *)
(***************************************************************************)
NoResponse == [status |-> "none", msg |-> "", data |-> <<>>]

resp_err(msg) == [status |-> "error", msg |-> msg, data |-> <<>>]

resp_data(results) == [status |-> "ok", msg |-> "", data |-> results]

\* the entry without the check of the query
ReceiveUnvalidated ==
    /\ pc = "receive"
    /\ IF ApiKey(authorization) # authApiKey
       THEN response' = resp_err("Access Denied") /\ pc' = "done"
       ELSE response' = response /\ pc' = "search"
    /\ UNCHANGED <<authApiKey, authorization, req, env, search_results, calls,
                   stage1, entered, outcome, matches, tasks, details>>

\* lines 49-57: the credential, then the query
Receive ==
    /\ pc = "receive"
    /\ IF ApiKey(authorization) # authApiKey
       THEN response' = resp_err("Access Denied") /\ pc' = "done"
       ELSE IF req.query = ""
       THEN response' = resp_err("invalid params") /\ pc' = "done"
       ELSE response' = response /\ pc' = "search"
    /\ UNCHANGED <<authApiKey, authorization, req, env, search_results, calls,
                   stage1, entered, outcome, matches, tasks, details>>

\* lines 60-65
StageSearch ==
    /\ pc = "search"
    /\ LET r == search(req.query, req.search_n, env.provider) IN
         /\ calls' = calls \o r.calls
         /\ IF r.raised
            THEN /\ response' = resp_err("get search results failed")
                 /\ pc' = "done"
                 /\ UNCHANGED <<search_results, stage1, outcome>>
            ELSE /\ search_results' = r.ret
                 /\ stage1' = r.ret
                 /\ outcome' = [outcome EXCEPT !.search = "ok"]
                 /\ pc' = "rerank"
                 /\ UNCHANGED response
    /\ UNCHANGED <<authApiKey, authorization, req, env, entered, matches, tasks,
                   details>>

\* lines 67-72
StageRerank ==
    /\ pc = "rerank"
    /\ pc' = "detail"
    /\ IF req.is_reranking
       THEN LET r == reranking(search_results, env.rerank) IN
              /\ entered' = search_results
              /\ calls' = calls \o r.calls
              /\ matches' = r.matches
              /\ search_results' = IF r.raised = "" THEN r.ret ELSE r.results
              /\ outcome' = [outcome EXCEPT
                               !.rerank = IF r.raised = "" THEN "ok" ELSE r.raised]
       ELSE UNCHANGED <<entered, calls, matches, search_results, outcome>>
    /\ UNCHANGED <<authApiKey, authorization, req, env, response, stage1, tasks,
                   details>>

\* fetch_details that sets an empty content on every selected result before
\* it starts the batch
fetch_details_begin_presetting(results, min_score, top_k, session) ==
    LET sel == SelectUrls(results, min_score, top_k, 1, <<>>)
        pre == [i \in 1..Len(results) |->
                  IF results[i].link \in Range(sel.urls)
                  THEN Put(results[i], "content", <<>>) ELSE results[i]]
    IN  IF sel.raised
        THEN [raised |-> "select", results |-> results, urls |-> sel.urls,
              calls |-> <<>>]
        ELSE IF session = "error"
        THEN [raised |-> "session", results |-> pre, urls |-> sel.urls,
              calls |-> <<Call("batch_fetch", sel.urls)>>]
        ELSE [raised |-> "", results |-> pre, urls |-> sel.urls,
              calls |-> <<Call("batch_fetch", sel.urls)>>]

\* fetch_details up to the await of line 145, and batch_fetch_urls up to its
\* gather: the selection, then the session.  session = "error" is a failure
\* to set the batch up, which batch_fetch_urls does not catch.
fetch_details_begin(results, min_score, top_k, session) ==
    LET sel == SelectUrls(results, min_score, top_k, 1, <<>>)
    IN  IF sel.raised
        THEN [raised |-> "select", results |-> results, urls |-> sel.urls,
              calls |-> <<>>]
        ELSE IF session = "error"
        THEN [raised |-> "session", results |-> results, urls |-> sel.urls,
              calls |-> <<Call("batch_fetch", sel.urls)>>]
        ELSE [raised |-> "", results |-> results, urls |-> sel.urls,
              calls |-> <<Call("batch_fetch", sel.urls)>>]

\* lines 74-79, up to the await
DetailBegin ==
    /\ pc = "detail"
    /\ IF req.is_detail
       THEN LET r == fetch_details_begin(search_results, req.detail_min_score,
                                         req.detail_top_k, env.session) IN
              /\ entered' = search_results
              /\ search_results' = r.results
              /\ calls' = calls \o r.calls
              /\ IF r.raised # ""
                 THEN /\ outcome' = [outcome EXCEPT !.detail = r.raised]
                      /\ pc' = "filter"
                      /\ UNCHANGED tasks
                 ELSE /\ tasks' = NewTasks(r.urls)
                      /\ pc' = "gather"
                      /\ UNCHANGED outcome
       ELSE /\ pc' = "filter"
            /\ UNCHANGED <<entered, search_results, calls, tasks, outcome>>
    /\ UNCHANGED <<authApiKey, authorization, req, env, response, stage1,
                   matches, details>>

\* one fetch_markdown task of the batch settles
TaskSettle ==
    /\ pc = "gather"
    /\ \E i \in 1..Len(tasks) :
         /\ ~tasks[i].done
         /\ tasks' = [tasks EXCEPT
                        ![i] = [url |-> tasks[i].url, done |-> TRUE,
                                nth |-> 1 + Cardinality(
                                    {j \in 1..Len(tasks) : tasks[j].done}),
                                result |-> fetch_markdown(tasks[i].url,
                                                          env.plan[i])]]
    /\ UNCHANGED <<authApiKey, authorization, req, env, pc, search_results,
                   response, calls, stage1, entered, outcome, matches,
                   details>>

\* gather returns; fetch_details lines 150-159
DetailEnd ==
    /\ pc = "gather"
    /\ AllSettled(tasks)
    /\ details' = Gathered(tasks)
    /\ search_results' = AttachContent(search_results,
                                       ContentMaps(Gathered(tasks)))
    /\ outcome' = [outcome EXCEPT !.detail = "ok"]
    /\ pc' = "filter"
    /\ UNCHANGED <<authApiKey, authorization, req, env, response, calls,
                   stage1, entered, matches, tasks>>

\* lines 81-86
StageFilter ==
    /\ pc = "filter"
    /\ pc' = "respond"
    /\ IF req.is_filter
       THEN LET r == filter_content(search_results, req.filter_min_score,
                                    req.filter_top_k, env.filter) IN
              /\ entered' = search_results
              /\ calls' = calls \o r.calls
              /\ matches' = r.matches
              /\ search_results' = IF r.raised = "" THEN r.ret ELSE r.results
              /\ outcome' = [outcome EXCEPT
                               !.filter = IF r.raised = "" THEN "ok" ELSE r.raised]
       ELSE UNCHANGED <<entered, calls, matches, search_results, outcome>>
    /\ UNCHANGED <<authApiKey, authorization, req, env, response, stage1, tasks,
                   details>>

\* lines 88-90
Respond ==
    /\ pc = "respond"
    /\ response' = resp_data(search_results)
    /\ pc' = "done"
    /\ UNCHANGED <<authApiKey, authorization, req, env, search_results, calls,
                   stage1, entered, outcome, matches, tasks, details>>

(***************************************************************************)
(* Inputs.  Scores are in tenths: 7 stands for 0.70.                       *)
(***************************************************************************)
Key == <<"k">>

Headers == {None, <<>>, <<"k">>, <<"Bearer ", "k">>, <<"Bearer ", "x">>}

Links == {"u1", "u2"}

\* a result as the provider makes it; sc is <<>> for no score key, <<v>> for
\* the score v
MkResult(i, link, snippet, sc) ==
    LET b == [uuid |-> i, title |-> <<"T", i>>, link |-> link,
              snippet |-> snippet]
    IN IF sc = <<>> THEN b ELSE Put(b, "score", sc[1])

ResultLists(n, L, S, SC) ==
    {[i \in 1..n |-> MkResult(i, f[i][1], f[i][2], f[i][3])] :
        f \in [1..n -> L \X S \X SC]}

RankedLists(U, SC, B, n) ==
    UNION {[1..k -> [uuid : U, score : SC, bare : B]] : k \in 0..n}

PageText == <<"t", "a", "t", "t">>
PagePara == <<"t", "p", "i", "t">>
PageBad  == <<"t", "!">>
\* a page whose second paragraph is the text {2,n}
PageBrace == <<"t", "p", "{", "2", ",", "n", "}">>

Fetched(h) == [kind |-> "ok", html |-> h]
Failed(k) == [kind |-> k, html |-> <<>>]

IdleIndex == [fail |-> "none", ranked |-> <<>>]

\* what the stages of one request are asked to do and what their
\* collaborators answer
Providers ==
    {[raises |-> TRUE, results |-> <<>>]} \cup
    {[raises |-> FALSE, results |-> rs] :
        rs \in UNION {ResultLists(n, Links, {<<"s">>}, {<<>>, <<0>>}) :
                        n \in 0..MaxResults}}

PipeRanked ==
    {<<>>,
     <<[uuid |-> 1, score |-> 9, bare |-> FALSE]>>,
     <<[uuid |-> 2, score |-> 9, bare |-> FALSE],
       [uuid |-> 1, score |-> 5, bare |-> FALSE]>>,
     <<[uuid |-> 1, score |-> 9, bare |-> FALSE],
       [uuid |-> 1, score |-> 9, bare |-> TRUE]>>}

RerankOpts ==
    {[on |-> FALSE, ix |-> IdleIndex]} \cup
    {[on |-> TRUE, ix |-> [fail |-> f, ranked |-> <<>>]] :
        f \in {"store", "query"}} \cup
    {[on |-> TRUE, ix |-> [fail |-> "none", ranked |-> r]] : r \in PipeRanked}

PipePlans ==
    {<<Fetched(PageText), Fetched(PageText)>>,
     <<Failed("transport"), Fetched(PagePara)>>,
     <<Fetched(PageBad), Failed("http")>>,
     <<Failed("decode"), Failed("transport")>>}

DetailOpts ==
    {[on |-> FALSE, top_k |-> 1, min_score |-> 0, session |-> "ok",
      plan |-> <<>>]} \cup
    {[on |-> TRUE, top_k |-> 1, min_score |-> 0, session |-> "error",
      plan |-> <<>>]} \cup
    {[on |-> TRUE, top_k |-> k, min_score |-> 0, session |-> "ok",
      plan |-> p] : k \in {0, 1}, p \in PipePlans}

FilterOpts ==
    {[on |-> FALSE, top_k |-> 2, min_score |-> 8, ix |-> IdleIndex]} \cup
    {[on |-> TRUE, top_k |-> 2, min_score |-> 8,
      ix |-> [fail |-> f, ranked |-> <<>>]] : f \in {"store", "query"}} \cup
    {[on |-> TRUE, top_k |-> 2, min_score |-> 8,
      ix |-> [fail |-> "none", ranked |-> r]] : r \in PipeRanked}

MkReq(query, n, ro, do, fo) ==
    [query |-> query, search_n |-> n,
     is_reranking |-> ro.on,
     is_detail |-> do.on, detail_top_k |-> do.top_k,
     detail_min_score |-> do.min_score,
     is_filter |-> fo.on, filter_min_score |-> fo.min_score,
     filter_top_k |-> fo.top_k]

MkEnv(pr, ro, do, fo) ==
    [provider |-> pr, rerank |-> ro.ix, session |-> do.session,
     plan |-> do.plan, filter |-> fo.ix]

NoOutcome == [search |-> "none", rerank |-> "none", detail |-> "none",
              filter |-> "none"]

Accepted(key, header, query) == ApiKey(header) = key /\ query # ""

\* a request arrives; the collaborators' answers vary only for the requests
\* that carry the usual header
Init ==
    /\ \E key \in {None, Key}, header \in Headers, query \in {"", "q"},
          pr \in Providers, ro \in RerankOpts, do \in DetailOpts,
          fo \in FilterOpts :
         /\ \/ header = <<"Bearer ", "k">> /\ key = Key /\ query = "q"
            \/ /\ pr = [raises |-> FALSE,
                        results |-> <<MkResult(1, "u1", <<"s">>, <<0>>)>>]
               /\ ro.ix.ranked = <<>> /\ fo.ix.ranked = <<>>
               /\ do.plan \in {<<>>, <<Fetched(PageText), Fetched(PageText)>>}
               /\ ro.ix.fail = "none" /\ fo.ix.fail = "none"
               /\ do.session = "ok"
         /\ authApiKey = key
         /\ authorization = header
         /\ req = MkReq(query, MaxResults, ro, do, fo)
         /\ env = MkEnv(pr, ro, do, fo)
    /\ pc = "receive"
    /\ search_results = <<>>
    /\ response = NoResponse
    /\ calls = <<>>
    /\ stage1 = <<>>
    /\ entered = <<>>
    /\ outcome = NoOutcome
    /\ matches = <<>>
    /\ tasks = <<>>
    /\ details = <<>>

Next ==
    \/ Receive
    \/ StageSearch
    \/ StageRerank
    \/ DetailBegin
    \/ TaskSettle
    \/ DetailEnd
    \/ StageFilter
    \/ Respond

Spec == Init /\ [][Next]_vars

(***************************************************************************)
(* One stage entered directly with inputs of its own, the way test() calls *)
(* fetch_details: the result sequence, the stage's parameters and the      *)
(* answers of its collaborator range over every value within the bounds.   *)
(***************************************************************************)
StageVars(at, rs, ro, do, fo) ==
    /\ authApiKey = Key
    /\ authorization = <<"Bearer ", "k">>
    /\ req = MkReq("q", MaxResults, ro, do, fo)
    /\ env = MkEnv([raises |-> FALSE, results |-> rs], ro, do, fo)
    /\ pc = at
    /\ search_results = rs
    /\ response = NoResponse
    /\ calls = <<>>
    /\ stage1 = rs
    /\ entered = <<>>
    /\ outcome = [NoOutcome EXCEPT !.search = "ok"]
    /\ matches = <<>>
    /\ tasks = <<>>
    /\ details = <<>>

RerankOff == [on |-> FALSE, ix |-> IdleIndex]
DetailOff == [on |-> FALSE, top_k |-> 1, min_score |-> 0, session |-> "ok",
              plan |-> <<>>]
FilterOff == [on |-> FALSE, top_k |-> 2, min_score |-> 8, ix |-> IdleIndex]

Indexes(U, SC, B) ==
    {[fail |-> f, ranked |-> <<>>] : f \in {"store", "query"}} \cup
    {[fail |-> "none", ranked |-> r] : r \in RankedLists(U, SC, B, MaxMatches)}

\* reranking
InitRerank ==
    \E n \in 0..MaxResults :
      \E rs \in ResultLists(n, {"u1"}, {<<"s">>}, {<<>>, <<0>>, <<5>>}),
         ix \in Indexes(1..MaxResults, {5, 9}, {FALSE}) :
        StageVars("rerank", rs, [on |-> TRUE, ix |-> ix], DetailOff, FilterOff)

NextRerank == StageRerank

SpecRerank == InitRerank /\ [][NextRerank]_vars

\* fetch_details and batch_fetch_urls
Outcomes ==
    {Fetched(h) : h \in {<<>>, PageText, PagePara, PageBad, PageBrace}} \cup
    {Failed(k) : k \in {"transport", "http", "decode"}}

InitDetail ==
    \E n \in 0..MaxResults :
      \E rs \in ResultLists(n, Links, {<<"s">>}, {<<>>, <<0>>, <<9>>}),
         k \in {0, 1}, ms \in {0, 7}, se \in {"ok", "error"},
         p \in [1..2 -> Outcomes] :
        /\ se = "error" => p = [i \in 1..2 |-> Fetched(PageText)]
        /\ StageVars("detail", rs, RerankOff,
                     [on |-> TRUE, top_k |-> k, min_score |-> ms,
                      session |-> se, plan |-> p], FilterOff)

NextDetail ==
    \/ DetailBegin
    \/ TaskSettle
    \/ DetailEnd

SpecDetail == InitDetail /\ [][NextDetail]_vars

\* filter_content
WithContent(rs, f) ==
    [i \in 1..Len(rs) |->
        IF f[i] = <<>> THEN rs[i] ELSE Put(rs[i], "content", f[i][1])]

Contents ==
    {<<>>, << <<>> >>, << <<NL, NL>> >>, << <<"t", "t", "t">> >>,
     << <<"t", "t", "t", NL, NL>> >>}

InitFilter ==
    \E n \in 0..MaxResults :
      \E rs \in ResultLists(n, {"u1"}, {<<"s", "s", "s">>}, {<<0>>}),
         f \in [1..n -> Contents],
         ix \in Indexes(1..MaxResults, {5, 9}, BOOLEAN),
         k \in {1, 2} :
        StageVars("filter", WithContent(rs, f), RerankOff, DetailOff,
                  [on |-> TRUE, top_k |-> k, min_score |-> 8, ix |-> ix])

NextFilter == StageFilter

SpecFilter == InitFilter /\ [][NextFilter]_vars

(***************************************************************************)
(* Properties of the request.                                              *)
(***************************************************************************)
Raised(stage) == outcome[stage] \notin {"none", "ok"}

SearchRaised ==
    /\ Accepted(authApiKey, authorization, req.query)
    /\ env.provider.raises
    /\ pc \notin {"receive", "search"}

\* C1: when the search provider raises in Stage 1, the request ends with an
\* error response and no later stage runs: the only collaborator call of the
\* request is the search, whatever is_reranking, is_detail and is_filter are.
C1_SearchFailureIsFatal ==
    SearchRaised =>
        /\ pc = "done"
        /\ response.status = "error"
        /\ \A i \in 1..Len(calls) : calls[i].op = "search"
        /\ \A st \in {"rerank", "detail", "filter"} : outcome[st] = "none"
        /\ tasks = <<>>

C1_Witness ==
    /\ SearchRaised
    /\ pc = "done"
    /\ response.status = "error"
    /\ req.is_reranking /\ req.is_detail /\ req.is_filter

\* C2: when is_reranking is set and reranking fails at any point (index
\* construction, index query, merge or sort), the request still succeeds and
\* the result set handed on is Stage 1's, unmodified: same order and the same
\* score, or absence of score, on every result.
C2_RerankFailureKeepsStage1 ==
    (req.is_reranking /\ Raised("rerank")) =>
        /\ pc = "detail" => search_results = stage1
        /\ pc = "done" => response.status = "ok"

\* C3: when is_detail is set and fetch_details raises, the request still
\* succeeds and the result set handed on is the one that entered
\* Detail-Fetch: same order, same scores, no content attached by the stage.
C3_DetailFailureKeepsResults ==
    (req.is_detail /\ Raised("detail")) =>
        /\ pc = "filter" => search_results = entered
        /\ pc = "done" => response.status = "ok"

C3_Witness ==
    /\ req.is_detail
    /\ outcome.detail = "session"
    /\ pc = "filter"
    /\ Len(search_results) = 2
    /\ Len(calls[Len(calls)].arg) = 2

\* C4: when is_filter is set and filter_content raises, the request still
\* succeeds and the returned result set is the one that entered Filter: same
\* order, same scores, same content on every result.
C4_FilterFailureKeepsResults ==
    (req.is_filter /\ Raised("filter")) =>
        /\ pc = "respond" => search_results = entered
        /\ pc = "done" => response = resp_data(entered)

C4_Witness ==
    /\ req.is_filter
    /\ outcome.filter = "merge"
    /\ pc = "done"
    /\ \E i \in 1..Len(entered) :
         Has(entered[i], "content") /\ Len(entered[i].content) > 2

\* C5: a request whose Stage 1 succeeded with a non-empty sequence has a
\* non-empty sequence after every stage and returns a non-empty sequence,
\* whichever optional stages run and whichever of them fail.
C5_NonEmptyStaysNonEmpty ==
    (outcome.search = "ok" /\ stage1 # <<>>) =>
        /\ search_results # <<>>
        /\ pc = "done" => (response.status = "ok" /\ response.data # <<>>)

C5_Witness ==
    /\ pc = "done"
    /\ stage1 # <<>>
    /\ response.data # <<>>
    /\ outcome.rerank = "ok"
    /\ outcome.detail = "ok"
    /\ outcome.filter = "ok"
    /\ matches = <<>>

\* C6: a request with an empty query, or with a credential that does not
\* match the configured secret, gets an error response and makes no
\* collaborator call: no search, no index call, no fetch.
C6_RejectedMakesNoCall ==
    ~Accepted(authApiKey, authorization, req.query) =>
        /\ calls = <<>>
        /\ tasks = <<>>
        /\ pc \in {"receive", "done"}
        /\ pc = "done" => response.status = "error"

C6_Witness ==
    /\ pc = "done"
    /\ req.query = ""
    /\ ApiKey(authorization) = authApiKey
    /\ response = resp_err("invalid params")
    /\ req.is_reranking /\ req.is_detail /\ req.is_filter

(***************************************************************************)
(* Properties of the stages.                                               *)
(***************************************************************************)
Without(r, k) == [x \in (DOMAIN r) \ {k} |-> r[x]]

LinksOf(results) == [i \in 1..Len(results) |-> results[i].link]

\* C7: whenever fetch_details returns, the sequence of links it returns is
\* the sequence of links it was given, and no field other than content
\* differs between a result given and the result returned in its place.
C7_DetailKeepsLinksAndFields ==
    (pc = "filter" /\ outcome.detail = "ok") =>
        /\ LinksOf(search_results) = LinksOf(entered)
        /\ \A i \in 1..Len(entered) :
             Without(search_results[i], "content") = Without(entered[i], "content")

C7_Witness ==
    /\ pc = "filter"
    /\ outcome.detail = "ok"
    /\ Len(search_results) = 2
    /\ ~Has(search_results[1], "content")
    /\ Has(search_results[2], "content")
    /\ search_results[2].content # <<>>
    /\ entered # search_results

Times(results, core) ==
    Cardinality({i \in 1..Len(results) : Without(results[i], "score") = core})

\* C8: a successful reranking returns a permutation of its input: every
\* result, taken without its score, occurs as often after as before, so only
\* the order and the score fields differ.
C8_RerankIsPermutation ==
    (pc = "detail" /\ outcome.rerank = "ok") =>
        /\ Len(search_results) = Len(entered)
        /\ \A i \in 1..Len(entered) :
             Times(search_results, Without(entered[i], "score"))
               = Times(entered, Without(entered[i], "score"))

C8_Witness ==
    /\ pc = "detail"
    /\ outcome.rerank = "ok"
    /\ Len(entered) = 2
    /\ search_results[1].uuid = entered[2].uuid
    /\ search_results[2].uuid = entered[1].uuid
    /\ ~Has(entered[2], "score")

\* C9: a successful filter_content returns as many results as it was given,
\* the same identifiers in the same places: a result absent from the match
\* list is not removed, also when the list is empty or cut at filter_top_k.
C9_FilterKeepsCount ==
    (pc = "respond" /\ outcome.filter = "ok") =>
        /\ Len(search_results) = Len(entered)
        /\ Uuids(search_results) = Uuids(entered)

C9_Witness ==
    /\ pc = "respond"
    /\ outcome.filter = "ok"
    /\ Len(entered) = 2
    /\ Len(Eligible(entered)) = 2
    /\ Len(matches) = 1
    /\ req.filter_top_k = 1
    /\ Len(env.filter.ranked) = 2
    /\ Len(search_results) = 2

BatchRan == pc = "filter" /\ req.is_detail /\ outcome.detail # "select"
            /\ env.session = "ok"

\* C10: in one batch, whichever fetches fail (transport error, HTTP error
\* status, decode error), the batch call does not raise, every failing URL
\* resolves to the empty string, every fetch settles, and every result whose
\* URL was fetched successfully has that fetch's content.
C10_FetchFailuresAreIsolated ==
    BatchRan =>
        /\ outcome.detail = "ok"
        /\ AllSettled(tasks)
        /\ \A i \in 1..Len(tasks) :
             env.plan[i].kind # "ok" => tasks[i].result = <<tasks[i].url, <<>> >>
        /\ \A i \in 1..Len(tasks) : \A j \in 1..Len(search_results) :
             (env.plan[i].kind = "ok" /\ search_results[j].link = tasks[i].url)
               => /\ Has(search_results[j], "content")
                  /\ search_results[j].content = tasks[i].result[2]

BatchUrls == calls[Len(calls)].arg

BatchReturned == pc = "filter" /\ req.is_detail /\ outcome.detail = "ok"

FilterReturned == pc = "respond" /\ req.is_filter /\ outcome.filter = "ok"

\* the matches bearing identifier u, in match order
MatchesOf(u) == SelectSeq(matches, LAMBDA m : m.uuid = u)

RECURSIVE JoinContents(_)
JoinContents(ms) ==
    IF ms = <<>> THEN <<>> ELSE Head(ms).content \o JoinContents(Tail(ms))

\* C12: after a successful filter_content, a result whose identifier appears
\* in the match list has as content the concatenation, in match order, of
\* the contents of all the matches bearing its identifier; for an identifier
\* matched once that is the content of that one match.
C12_MatchedContentIsConcatenation ==
    FilterReturned =>
        \A i \in 1..Len(search_results) :
            LET own == MatchesOf(search_results[i].uuid) IN
              (own # <<>> /\ \A j \in 1..Len(own) : Has(own[j], "content"))
                => /\ Has(search_results[i], "content")
                   /\ search_results[i].content = JoinContents(own)

FilterRan == pc = "respond" /\ req.is_filter

LongerThanSnippet(r) == Has(r, "content") /\ Len(r.content) > Len(r.snippet)

\* C13: the results filter_content hands to the index are exactly, and in
\* order, the results that have a content strictly longer than their
\* snippet; every other result leaves a successful Filter with the content
\* (or lack of content) and the score it entered with.
C13_OnlyLongerContentIsIndexed ==
    FilterRan =>
        /\ calls # <<>>
        /\ calls[1].op = "store"
        /\ calls[1].arg = Uuids(SelectSeq(entered, LongerThanSnippet))
        /\ FilterReturned =>
             /\ Len(search_results) = Len(entered)
             /\ \A i \in 1..Len(entered) :
                  ~LongerThanSnippet(entered[i]) =>
                    /\ Has(search_results[i], "content")
                         = Has(entered[i], "content")
                    /\ Has(entered[i], "content") =>
                         search_results[i].content = entered[i].content
                    /\ search_results[i].score = entered[i].score

C13_Witness ==
    /\ FilterReturned
    /\ Len(entered) = 2
    /\ Has(entered[1], "content")
    /\ entered[1].content = <<"t", "t", "t">>
    /\ LongerThanSnippet(entered[2])
    /\ calls[1].arg = <<entered[2].uuid>>
    /\ Len(matches) = 1
    /\ search_results[1].content = <<"t", "t", "t">>
    /\ search_results[2].content # entered[2].content

RerankReturned == pc = "detail" /\ req.is_reranking /\ outcome.rerank = "ok"

\* the place in the list the stage was entered with of the result bearing u
PlaceEntered(u) == CHOOSE i \in 1..Len(entered) : entered[i].uuid = u

\* C14: the list a successful reranking returns is ordered by score
\* non-increasing, and two results of equal score stand in the order they had
\* in the input; so when the scores are pairwise distinct the list is in
\* strictly descending order of score.
C14_RerankSortsDescendingStable ==
    RerankReturned =>
        \A i, j \in 1..Len(search_results) :
            i < j =>
              /\ search_results[i].score >= search_results[j].score
              /\ search_results[i].score = search_results[j].score
                   => PlaceEntered(search_results[i].uuid)
                        < PlaceEntered(search_results[j].uuid)

C14_Witness ==
    /\ RerankReturned
    /\ Len(matches) = 2
    /\ Len(search_results) = 2
    /\ search_results[1].score = 9
    /\ search_results[2].score = 9
    /\ Has(entered[1], "score") /\ entered[1].score = 0
    /\ Has(entered[2], "score") /\ entered[2].score = 5
    /\ search_results[1].uuid = entered[1].uuid

BatchCalled ==
    /\ pc \in {"gather", "filter"}
    /\ req.is_detail
    /\ calls # <<>>
    /\ calls[Len(calls)].op = "batch_fetch"

\* the results fetch_details was entered with whose score is at least the
\* floor, in result order
Qualifying ==
    SelectSeq(entered,
              LAMBDA r : Has(r, "score") /\ r.score >= req.detail_min_score)

LastFetchOf(link) ==
    CHOOSE i \in 1..Len(BatchUrls) :
        /\ BatchUrls[i] = link
        /\ \A j \in (i + 1)..Len(BatchUrls) : BatchUrls[j] # link

\* C16: the content fetch_details attaches to a result is fixed by the
\* results it was given and the outcome of each fetch of the batch: whatever
\* the order in which the fetches complete, a result whose link was fetched
\* has the text of the last fetch of that link in URL-list order, and a
\* result whose link was not fetched is as it was given.
C16_ContentIgnoresCompletionOrder ==
    BatchReturned =>
        \A i \in 1..Len(search_results) :
            LET link == entered[i].link IN
              IF \E j \in 1..Len(BatchUrls) : BatchUrls[j] = link
              THEN /\ Has(search_results[i], "content")
                   /\ search_results[i].content
                        = fetch_markdown(link, env.plan[LastFetchOf(link)])[2]
              ELSE search_results[i] = entered[i]

C16_Witness ==
    /\ BatchReturned
    /\ Len(tasks) = 2
    /\ tasks[1].url = tasks[2].url
    /\ tasks[1].nth = 2
    /\ tasks[2].nth = 1
    /\ tasks[1].result # tasks[2].result
    /\ search_results[1].content = tasks[2].result[2]
    /\ search_results[2].content = tasks[2].result[2]

\* C17: within one batch each distinct link is fetched at most once, also
\* when several selected results share a link: no two fetch tasks of the
\* batch bear the same URL.
C17_EachLinkFetchedOnce ==
    BatchCalled =>
        /\ \A i, j \in 1..Len(BatchUrls) :
             i # j => BatchUrls[i] # BatchUrls[j]
        /\ \A i, j \in 1..Len(tasks) :
             i # j => tasks[i].url # tasks[j].url

\* t holds three newline characters in a row
HasBlankRun(t) ==
    \E i \in 1..(Len(t) - 2) : t[i] = NL /\ t[i + 1] = NL /\ t[i + 2] = NL

\* the length of the run of newline characters that starts at t[i]
RECURSIVE RunLen(_, _)
RunLen(t, i) ==
    IF i > Len(t) \/ t[i] # NL THEN 0 ELSE 1 + RunLen(t, i + 1)

\* t with every run of three or more newline characters made one newline
RECURSIVE CollapseRuns(_, _)
CollapseRuns(t, i) ==
    IF i > Len(t) THEN <<>>
    ELSE IF RunLen(t, i) >= 3
    THEN <<NL>> \o CollapseRuns(t, i + RunLen(t, i))
    ELSE IF t[i] = NL
    THEN SubSeq(t, i, i + RunLen(t, i) - 1)
           \o CollapseRuns(t, i + RunLen(t, i))
    ELSE <<t[i]>> \o CollapseRuns(t, i + 1)

\* C18: the text fetch_markdown returns for a page that was fetched and
\* converted is the converted text with every run of three or more newline
\* characters made a single newline, and so never holds three newline
\* characters in a row.
C18_NoBlankRunInMarkdown ==
    \A i \in 1..Len(tasks) :
        (tasks[i].done /\ env.plan[i].kind = "ok") =>
            /\ tasks[i].result[2]
                 = CollapseRuns(html_to_markdown(env.plan[i].html), 1)
            /\ ~HasBlankRun(tasks[i].result[2])

\* reranking has merged the scores: it returned, or its sort raised
RerankMerged ==
    pc = "detail" /\ req.is_reranking /\ outcome.rerank \in {"ok", "sort"}

\* the match list in another order
Reordered(p) == [k \in 1..Len(matches) |-> matches[p[k]]]

MatchedIds == {matches[k].uuid : k \in 1..Len(matches)}

\* a result not in the match list has the score, or the absence of a score,
\* it entered with
UnmatchedKeepScore ==
    \A i \in 1..Len(search_results) :
        LET r == search_results[i]
            e == entered[PlaceEntered(r.uuid)]
        IN r.uuid \notin MatchedIds =>
             /\ Has(r, "score") = Has(e, "score")
             /\ Has(e, "score") => r.score = e.score

\* the merge gives the same scores for every order of the match list
MergeIgnoresOrder ==
    \A p \in Permutations(1..Len(matches)) :
        MergeScores(entered, ScoreMaps(Reordered(p)))
          = MergeScores(entered, ScoreMaps(matches))

\* C19 as stated: after the merge of reranking a result in the match list
\* has the score of a match bearing its identifier, a result not in the list
\* has the score or absence of score it had, and the order of the match list
\* plays no part in the scores.
C19_MergeIgnoresMatchOrder ==
    RerankMerged =>
        /\ \A i \in 1..Len(search_results) :
             search_results[i].uuid \in MatchedIds =>
                \E k \in 1..Len(matches) :
                    /\ matches[k].uuid = search_results[i].uuid
                    /\ search_results[i].score = matches[k].score
        /\ UnmatchedKeepScore
        /\ MergeIgnoresOrder

\* C19 amended: a result in the match list has the score of the last match
\* bearing its identifier, a result not in the list has the score or absence
\* of score it had, and when no identifier is in the match list twice the
\* order of the list plays no part in the scores.
C19_LastMatchGivesScore ==
    RerankMerged =>
        /\ \A i \in 1..Len(search_results) : \A k \in 1..Len(matches) :
             ( /\ matches[k].uuid = search_results[i].uuid
               /\ \A j \in (k + 1)..Len(matches) :
                    matches[j].uuid # matches[k].uuid )
               => search_results[i].score = matches[k].score
        /\ UnmatchedKeepScore
        /\ Cardinality(MatchedIds) = Len(matches) => MergeIgnoresOrder

C19_Witness ==
    /\ RerankMerged
    /\ Len(entered) = 2
    /\ Len(matches) = 2
    /\ matches[1].uuid = matches[2].uuid
    /\ matches[1].score = 9
    /\ matches[2].score = 5
    /\ \E i \in 1..2 :
          /\ search_results[i].uuid = matches[1].uuid
          /\ search_results[i].score = 5
    /\ outcome.rerank = "ok"
    /\ \E i \in 1..2 :
          /\ search_results[i].uuid # matches[1].uuid
          /\ search_results[i].score = 0

\* C20: filter_content changes nothing but content fields: the list it
\* returns has the results it was given in the same places, each with the
\* identifier, score, title, link and snippet it had, whatever the index
\* returned.
C20_FilterChangesOnlyContent ==
    FilterReturned =>
        /\ Len(search_results) = Len(entered)
        /\ \A i \in 1..Len(entered) :
             /\ Without(search_results[i], "content")
                  = Without(entered[i], "content")
             /\ \A f \in {"uuid", "score", "title", "link", "snippet"} :
                  search_results[i][f] = entered[i][f]

C20_Witness ==
    /\ FilterReturned
    /\ Len(entered) = 2
    /\ Len(matches) = 1
    /\ matches[1].uuid = entered[2].uuid
    /\ search_results[1] = entered[1]
    /\ search_results[2] # entered[2]
    /\ search_results[2].uuid = entered[2].uuid


==============================================================================
